---- MODULE Spec2Model ----
(***************************************************************************)
(* Identity-provisioning gateway: the provisioning orchestrator            *)
(* (ProvisionService), the approval workflow (WorkflowService and the      *)
(* workflow API) and the stores they share (MemoryStore).                  *)
(*                                                                         *)
(* One account id is followed through the target systems.  Every connector *)
(* call is one step: the handler code between two awaits is atomic on the  *)
(* event loop, so an action is a connector call together with the code     *)
(* that runs up to the next call.                                          *)
(***************************************************************************)
EXTENDS Integers, Sequences, FiniteSets, TLC

(* ----------------------------- bounds --------------------------------- *)
\* longest target list of a request
MaxTargets == 3
\* operations created (uuid4 ids, numbered in creation order)
MaxOps == 2
\* decisions taken through the interactive endpoints
MaxDecisions == 3
\* rules in the rule set handed to calculate_attributes
MaxRules == 3
\* calls of calculate_attributes on one input
MaxRuns == 2
\* ticks of the clock between the calls
MaxClock == 1
\* accounts on the hub side, and on a target, in a reconciliation run
MaxAccounts == 2
\* calls of resolve_discrepancies on one job
MaxResolves == 2
\* reconciliation jobs started
MaxJobs == 2

(* --------------------------- vocabulary ------------------------------- *)
Targets == {"LDAP", "SQL", "ODOO"}

OperationType == {"create", "update", "delete", "disable", "enable"}

OperationStatus ==
    {"pending", "in_progress", "awaiting_approval", "approved", "rejected",
     "success", "failed", "rolled_back"}

\* spec section 3: "terminal once status in {success, failed, rolled_back, rejected}"
TerminalStatus == {"success", "failed", "rolled_back", "rejected"}

OpIds == 1..MaxOps

\* the rule set as it was at the first request, and as edited since
RuleVersions == {"v1", "v2"}

\* request.target_systems: lists of distinct targets, possibly empty
TargetLists ==
    {s \in UNION {[1..n -> Targets] : n \in 0..MaxTargets} :
        \A i, j \in DOMAIN s : i # j => s[i] # s[j]}

Range(s) == {s[i] : i \in DOMAIN s}

(* --------------------------- connectors ------------------------------- *)
\* What a connector call can do: "ok" returns a result, "raise" raises,
\* "false" reports the failure by returning False without raising.
\*   LDAP  create/update/delete raise on failure; disable/enable go through
\*         update_account.
\*   SQL   create/update raise; delete returns False on SQLAlchemyError;
\*         disable/enable return False on any exception.
\*   ODOO  create/update raise; delete/disable/enable return False.
ConnectorOutcomes(target, kind) ==
    IF kind \in {"create", "update"} THEN {"ok", "raise"}
    ELSE IF target = "LDAP" THEN {"ok", "raise"}
    ELSE {"ok", "false"}

\* the call did not do what it was asked to
CallFailed(outcome) == outcome \in {"raise", "false"}

(* ---------------------------- rule engine ----------------------------- *)
\* The calculated attributes of a request, as far as the orchestrator is
\* concerned: one attribute set per requested target, determined by the rule
\* set in force when calculate_attributes runs.
CalcAttrsFor(rv, targets) == [t \in Range(targets) |-> rv]

\* attrs = calculated_attributes.get(target, {})
TargetAttrs(calc, target) ==
    IF target \in DOMAIN calc THEN calc[target] ELSE "none"

\* the outcomes the target can give for the account as it stands: a create
\* cannot succeed on an existing account, an update, disable or enable cannot
\* succeed on a missing one; a delete of a missing account returns True
PossibleOutcomes(target, kind, accts) ==
    IF kind = "create" /\ target \in accts
        THEN ConnectorOutcomes(target, kind) \ {"ok"}
    ELSE IF kind \in {"update", "disable", "enable"} /\ target \notin accts
        THEN ConnectorOutcomes(target, kind) \ {"ok"}
    ELSE ConnectorOutcomes(target, kind)

\* the target's accounts after the call
AccountsAfter(accts, target, kind, outcome) ==
    IF outcome # "ok" THEN accts
    ELSE IF kind = "create" THEN accts \cup {target}
    ELSE IF kind = "delete" THEN accts \ {target}
    ELSE accts

VARIABLES
    accounts,    \* targets on which the account exists
    rules,       \* rule-set version in force
    nextOp,      \* number of operations created so far
    run,         \* the ProvisioningOperation in the hands of execute_provisioning
    calls,       \* connector calls made by the current execute_provisioning
    operations,  \* memory_store.operations
    workflows,   \* memory_store.workflows
    email,       \* the approve-by-email requests in flight
    resolved,    \* per workflow: token resolutions that succeeded
    continues,   \* the last continue_after_approval invocation
    decisions,   \* decisions taken through the interactive endpoints
    run2,        \* a second execute_provisioning, suspended at an await
    pure         \* inputs and results of the function under study

vars ==
    <<accounts, rules, nextOp, run, calls, operations, workflows, email,
      resolved, continues, decisions, run2, pure>>

\* what only the specifications of their own subject change
auxVars == <<run2, pure>>

flowVars == <<workflows, email, resolved, continues, decisions>>

NoOperation == [status |-> "none"]

NoWorkflow == [status |-> "none"]

NoContinue == [status |-> "none", outcome |-> "none"]

\* a get_operation that reads the stored record
GetOperationStored(operation_id) ==
    IF operation_id \in OpIds THEN operations[operation_id] ELSE NoOperation

\* ProvisionService.get_operation: the database query is not written
GetOperation(operation_id) == NoOperation

NoRun ==
    [pc |-> "idle", id |-> 0, type |-> "create", targets |-> <<>>,
     calc |-> <<>>, status |-> "pending", idx |-> 1,
     rollback_actions |-> <<>>, rb |-> 0, error |-> "", raised |-> FALSE]

\* ProvisionService.create_operation, then the first lines of
\* execute_provisioning
NewRun(id, type, targets, calc) ==
    [pc |-> "exec", id |-> id, type |-> type, targets |-> targets,
     calc |-> calc, status |-> "in_progress", idx |-> 1,
     rollback_actions |-> <<>>, rb |-> 0, error |-> "", raised |-> FALSE]

\* a RollbackAction born executed
RollbackActionExecuted(target) ==
    [target_system |-> target, action_type |-> "delete", executed |-> TRUE]

\* RollbackAction(operation_id, target_system, action_type="delete", ...)
RollbackAction(target) ==
    [target_system |-> target, action_type |-> "delete", executed |-> FALSE]

\* the record _provision_direct saves once execute_provisioning has returned
SuccessRecord(r) ==
    [status |-> "success", operation |-> r.type, targets |-> r.targets,
     calc |-> r.calc, workflow_id |-> 0]

\* memory_store.save_operation
SaveOperation(ops, operation_id, data) ==
    [ops EXCEPT ![operation_id] = data]

\* a background rollback_operation that finds the operation and marks it
StatusAfterBackgroundRollbackFound(r) == "rolled_back"

\* ProvisionService.rollback_operation, run as a background task by the
\* handler's except branch: it gives up when get_operation finds nothing
StatusAfterBackgroundRollback(r) ==
    IF GetOperation(r.id) = NoOperation THEN r.status ELSE "rolled_back"

\* the AuditService calls of _provision_direct that raise: log_provision_request
\* ("request"), log_provision_success ("success")
AuditCalls == {"request", "success"}
AuditFails == IF pure.fn = "provision_audit" THEN pure.fails ELSE {}

\* execute_provisioning has returned with operation.status = SUCCESS:
\* _provision_direct logs the success and saves the operation; when the audit
\* call raises, the except branch schedules rollback_operation and answers 500
FinishSuccess(r) ==
    IF "success" \in AuditFails
        THEN /\ run' = [r EXCEPT !.pc = "done", !.raised = TRUE,
                                 !.status = StatusAfterBackgroundRollback(
                                                [r EXCEPT !.status = "success"])]
             /\ UNCHANGED operations
        ELSE /\ run' = [r EXCEPT !.pc = "done", !.status = "success"]
             /\ operations' = SaveOperation(operations, r.id, SuccessRecord(r))

\* execute_provisioning has raised: _provision_direct schedules
\* rollback_operation and answers 500; nothing is saved
FinishFailure(r) ==
    /\ run' = [r EXCEPT !.pc = "done", !.raised = TRUE,
                        !.status = StatusAfterBackgroundRollback(r)]
    /\ UNCHANGED operations

\* a loop that records a RollbackAction in every branch
RecordRollbackAlways(actions, type, target) ==
    Append(actions, RollbackAction(target))

\* "rollback_actions.append(RollbackAction(...))": only the CREATE branch of
\* the loop has it, after create_account has returned
RecordRollback(actions, type, target) ==
    IF type = "create" THEN Append(actions, RollbackAction(target)) ELSE actions

\* one connector call of the loop of execute_provisioning
ExecStep ==
    /\ run.pc = "exec"
    /\ run.idx <= Len(run.targets)
    /\ LET target == run.targets[run.idx]
           attrs == TargetAttrs(run.calc, target)
       IN \E outcome \in PossibleOutcomes(target, run.type, accounts) :
            /\ calls' = Append(calls,
                    [op |-> run.id, target |-> target, kind |-> run.type,
                     phase |-> "apply", outcome |-> outcome, attrs |-> attrs])
            /\ accounts' = AccountsAfter(accounts, target, run.type, outcome)
            /\ IF outcome = "raise"
               THEN LET failed == [run EXCEPT !.status = "failed",
                                              !.error = target]
                    IN IF Len(run.rollback_actions) = 0
                       THEN FinishFailure(failed)
                       ELSE /\ run' = [failed EXCEPT
                                           !.pc = "rollback",
                                           !.rb = Len(run.rollback_actions)]
                            /\ UNCHANGED operations
               ELSE LET acts == RecordRollback(run.rollback_actions,
                                               run.type, target)
                        next == [run EXCEPT !.rollback_actions = acts,
                                            !.idx = run.idx + 1]
                    IN IF run.idx = Len(run.targets)
                       THEN FinishSuccess(next)
                       ELSE /\ run' = next
                            /\ UNCHANGED operations
    /\ UNCHANGED <<rules, nextOp>>
    /\ UNCHANGED flowVars
    /\ UNCHANGED auxVars

\* a loop over the actions in the order they were recorded
ForwardIndex(n, remaining) == n - remaining + 1

\* "for action in reversed(actions)": the index of the action the loop takes
\* when `remaining` of the n actions are still to come
ReversedIndex(n, remaining) == remaining

\* one turn of the loop of _execute_rollback, over reversed(actions)
RollbackStep ==
    /\ run.pc = "rollback"
    /\ run.rb >= 1
    /\ LET k == ReversedIndex(Len(run.rollback_actions), run.rb)
           action == run.rollback_actions[k]
           target == action.target_system
       IN IF action.executed
          THEN /\ UNCHANGED <<calls, accounts>>
               /\ IF run.rb = 1
                  THEN FinishFailure([run EXCEPT !.rb = 0])
                  ELSE /\ run' = [run EXCEPT !.rb = run.rb - 1]
                       /\ UNCHANGED operations
          ELSE \E outcome \in PossibleOutcomes(target, "delete", accounts) :
                 /\ calls' = Append(calls,
                         [op |-> run.id, target |-> target, kind |-> "delete",
                          phase |-> "rollback", outcome |-> outcome,
                          attrs |-> "none"])
                 /\ accounts' = AccountsAfter(accounts, target, "delete", outcome)
                 /\ LET acts == IF outcome = "raise"
                                THEN run.rollback_actions
                                ELSE [run.rollback_actions EXCEPT
                                          ![k].executed = TRUE]
                        next == [run EXCEPT !.rollback_actions = acts,
                                            !.rb = run.rb - 1]
                    IN IF run.rb = 1
                       THEN FinishFailure(next)
                       ELSE /\ run' = next
                            /\ UNCHANGED operations
    /\ UNCHANGED <<rules, nextOp>>
    /\ UNCHANGED flowVars
    /\ UNCHANGED auxVars

(* ------------------------- approval workflow -------------------------- *)
\* the two requests that can hit /approve-by-email at the same time
Clickers == {"c1", "c2"}

\* EmailService._generate_approval_token draws a fresh secret for every token:
\* the approve and the reject token of a workflow differ from each other and
\* from every other workflow's
ApproveTokenOf(workflow_id) == 2 * workflow_id - 1

RejectTokenOf(workflow_id) == 2 * workflow_id

\* what a request for a workflow can present as a token: the two tokens minted
\* for it, the approve token of another workflow, and one never issued
PresentedTokens(workflow_id) ==
    {0, ApproveTokenOf(workflow_id), RejectTokenOf(workflow_id),
     ApproveTokenOf((workflow_id % MaxOps) + 1)}

\* operation_id of the instance WorkflowService.get_instance answers with
\* ("op-123"): no operation has it
MockOperationId == 0

\* WorkflowService.create_approval_workflow: one pending single-level workflow
\* for the operation, with the two tokens of the email sent to the manager
CreateApprovalWorkflow(workflow_id, operation_id) ==
    [status |-> "pending", operation_id |-> operation_id,
     approve_token |-> ApproveTokenOf(workflow_id),
     reject_token |-> RejectTokenOf(workflow_id),
     current_level |-> 1, total_levels |-> 1]

\* the record _provision_direct saves for a suspended operation
AwaitingRecord(type, targets, calc, workflow_id) ==
    [status |-> "awaiting_approval", operation |-> type, targets |-> targets,
     calc |-> calc, workflow_id |-> workflow_id]

\* POST /provision, _provision_direct: create the operation, have the rule
\* engine calculate the attributes, then either suspend the operation behind a
\* workflow or enter execute_provisioning
ProvisionRequest(type, targets, require_approval, manager_email) ==
    /\ run.pc \in {"idle", "done"}
    /\ nextOp < MaxOps
    /\ nextOp' = nextOp + 1
    /\ LET id == nextOp + 1
           calc == CalcAttrsFor(rules, targets)
       IN IF "request" \in AuditFails
          THEN \* log_provision_request raises: the except branch, 500
               /\ run' = [NewRun(id, type, targets, <<>>) EXCEPT
                             !.pc = "done", !.raised = TRUE,
                             !.status = "pending"]
               /\ calls' = <<>>
               /\ UNCHANGED <<workflows, operations>>
          ELSE IF require_approval
          THEN /\ UNCHANGED <<run, calls>>
               /\ IF manager_email
                  THEN /\ workflows' =
                            [workflows EXCEPT ![id] = CreateApprovalWorkflow(id, id)]
                       /\ operations' =
                            SaveOperation(operations, id,
                                AwaitingRecord(type, targets, calc, id))
                  ELSE \* start_pre_workflow: the instance is built, not stored
                       UNCHANGED <<workflows, operations>>
          ELSE /\ calls' = <<>>
               /\ UNCHANGED workflows
               /\ IF Len(targets) = 0
                  THEN FinishSuccess(NewRun(id, type, targets, calc))
                  ELSE /\ run' = NewRun(id, type, targets, calc)
                       /\ UNCHANGED operations
    /\ UNCHANGED <<accounts, rules, email, resolved, continues, decisions>>
    /\ UNCHANGED auxVars

\* the rule set is edited through the rules API
RulesChange ==
    /\ rules = "v1"
    /\ rules' = "v2"
    /\ UNCHANGED <<accounts, nextOp, run, calls, operations>>
    /\ UNCHANGED flowVars
    /\ UNCHANGED auxVars

\* status of an operation in memory_store.operations
StoredStatus(operation_id) ==
    IF operation_id \in OpIds THEN operations[operation_id].status ELSE "none"

\* ProvisionService.continue_after_approval
ContinueAfterApproval(operation_id) ==
    LET operation == GetOperation(operation_id)
    IN IF operation = NoOperation
       THEN \* raise ValueError("Operation ... not found")
            /\ continues' =
                   [status |-> StoredStatus(operation_id),
                    outcome |-> "not_found"]
            /\ UNCHANGED <<run, calls, operations>>
       ELSE \* execute_provisioning(operation, json.loads(calculated_attributes))
            /\ run.pc \in {"idle", "done"}
            /\ continues' =
                   [status |-> StoredStatus(operation_id),
                    outcome |-> "executed"]
            /\ calls' = <<>>
            /\ IF Len(operation.targets) = 0
               THEN FinishSuccess(NewRun(operation_id, operation.operation,
                                         operation.targets, operation.calc))
               ELSE /\ run' = NewRun(operation_id, operation.operation,
                                     operation.targets, operation.calc)
                    /\ UNCHANGED operations

\* the continue entry point, called with an operation id
ContinueCall(operation_id) ==
    /\ ContinueAfterApproval(operation_id)
    /\ UNCHANGED <<accounts, rules, nextOp, workflows, email, resolved, decisions>>
    /\ UNCHANGED auxVars

\* a token check that does not look at the action the token was minted for
ApproveByTokenAnyAction(workflow_id, token, action) ==
    /\ workflow_id \in OpIds
    /\ workflows[workflow_id].status = "pending"
    /\ action \in {"approve", "reject"}
    /\ token \in {workflows[workflow_id].approve_token,
                  workflows[workflow_id].reject_token}

\* a token check that does not look at the workflow's status
ApproveByTokenReusable(workflow_id, token, action) ==
    /\ workflow_id \in OpIds
    /\ workflows[workflow_id] # NoWorkflow
    /\ action \in {"approve", "reject"}
    /\ token = (IF action = "approve"
                THEN workflows[workflow_id].approve_token
                ELSE workflows[workflow_id].reject_token)

\* WorkflowService.approve_by_token: the token must be the one minted for this
\* workflow and this action, and the workflow must still be pending
ApproveByToken(workflow_id, token, action) ==
    /\ workflow_id \in OpIds
    /\ workflows[workflow_id].status = "pending"
    /\ action \in {"approve", "reject"}
    /\ token = (IF action = "approve"
                THEN workflows[workflow_id].approve_token
                ELSE workflows[workflow_id].reject_token)

\* approve_by_token on success, workflow side: the decision is recorded and
\* the workflow leaves "pending", which invalidates both of its tokens
WorkflowsAfterToken(wfs, workflow_id, action) ==
    [wfs EXCEPT ![workflow_id].status =
        IF action = "approve" THEN "approved" ELSE "rejected"]

\* approve_by_token on success, operation side: a rejection rejects the
\* operation the workflow stands for
OperationsAfterToken(ops, operation_id, action) ==
    IF action = "reject"
    THEN [ops EXCEPT ![operation_id].status = "rejected"]
    ELSE ops

\* the request presents the token that was minted for this workflow and action
IssuedFor(workflow_id, token, action) ==
    /\ workflow_id \in OpIds
    /\ workflows[workflow_id] # NoWorkflow
    /\ token = (IF action = "approve"
                THEN workflows[workflow_id].approve_token
                ELSE workflows[workflow_id].reject_token)

\* a handler that does not test the result of approve_by_token
ResolveFailedIgnored(success) == FALSE

\* approve_workflow_by_email: "if not result.get('success')" answers 400
ResolveFailed(success) == ~success

Bump(n) == IF n < 2 THEN n + 1 ELSE n

\* the resolution counters after one more request: tries counts the requests
\* that presented the workflow's approve token, ok the resolutions that
\* succeeded
Counted(res, workflow_id, token, action, success) ==
    LET tried == IF action = "approve" /\ IssuedFor(workflow_id, token, action)
                 THEN [res EXCEPT ![workflow_id].tries = Bump(@)]
                 ELSE res
    IN IF success THEN [tried EXCEPT ![workflow_id].ok = Bump(@)] ELSE tried

\* GET /approve-by-email up to the return of approve_by_token, which checks
\* and invalidates the token in one step
EmailResolveCore(c, workflow_id, token, action) ==
    /\ email[c].pc = "idle"
    /\ action \in {"approve", "reject"}
    /\ LET success == ApproveByToken(workflow_id, token, action)
       IN /\ IF success
             THEN /\ workflows' = WorkflowsAfterToken(workflows, workflow_id, action)
                  /\ operations' =
                        OperationsAfterToken(operations,
                            workflows[workflow_id].operation_id, action)
             ELSE UNCHANGED <<workflows, operations>>
          /\ resolved' = Counted(resolved, workflow_id, token, action, success)
          /\ email' =
                IF ~ResolveFailed(success) /\ action = "approve"
                THEN [email EXCEPT ![c] = [pc |-> "continue",
                                           workflow_id |-> workflow_id]]
                ELSE email
    /\ UNCHANGED <<accounts, rules, nextOp, run, calls, continues, decisions>>
    /\ UNCHANGED run2

EmailResolve(c, workflow_id, token, action) ==
    /\ EmailResolveCore(c, workflow_id, token, action)
    /\ UNCHANGED pure

\* the same request, with what was presented and what the handler answered
\* kept for inspection: the status the workflow and its operation had before
\* and have after the request, and the HTTP status of the answer
EmailResolveLogged(c, workflow_id, token, action) ==
    /\ pure.fn = "tokens"
    /\ EmailResolveCore(c, workflow_id, token, action)
    /\ pure' = [pure EXCEPT !.last =
                  [workflow_id |-> workflow_id, token |-> token,
                   action |-> action,
                   issued |-> IssuedFor(workflow_id, token, action),
                   workflow_before |-> workflows[workflow_id].status,
                   operation_before |-> StoredStatus(workflow_id),
                   workflow_after |-> workflows'[workflow_id].status,
                   operation_after |-> operations'[workflow_id].status,
                   answer |-> IF ResolveFailed(ApproveByToken(workflow_id, token, action))
                              THEN 400 ELSE 200]]

\* GET /approve-by-email after an approval: look the workflow up and resume
\* the operation; an exception of continue_after_approval is logged
EmailContinue(c) ==
    /\ email[c].pc = "continue"
    /\ LET workflow_id == email[c].workflow_id
           workflow == IF workflow_id \in OpIds
                       THEN workflows[workflow_id] ELSE NoWorkflow
       IN IF workflow # NoWorkflow
          THEN /\ ContinueAfterApproval(workflow.operation_id)
               /\ resolved' = [resolved EXCEPT ![workflow_id].cont = Bump(@)]
          ELSE UNCHANGED <<continues, run, calls, operations, resolved>>
    /\ email' = [email EXCEPT ![c] = [pc |-> "idle", workflow_id |-> 0]]
    /\ UNCHANGED <<accounts, rules, nextOp, workflows, decisions>>
    /\ UNCHANGED auxVars

\* an update that replaces the record instead of merging into it
UpdateOperationReplace(ops, operation_id, status) ==
    [ops EXCEPT ![operation_id] =
        [status |-> status, operation |-> @.operation, targets |-> @.targets,
         calc |-> <<>>, workflow_id |-> @.workflow_id]]

\* memory_store.update_operation: the updates are merged into the record
UpdateOperation(ops, operation_id, status) ==
    [ops EXCEPT ![operation_id].status = status]

\* DELETE /provision/{operation_id}: every target's turn ends in the except
\* branch, because ProvisionService has no _get_connector; the status written
\* is "deleted" when no error was collected
DeletedStatus(targets) ==
    IF Len(targets) = 0 THEN "deleted" ELSE "partially_deleted"

DeleteOperation(operation_id) ==
    /\ operations[operation_id] # NoOperation
    /\ operations' = UpdateOperation(operations, operation_id,
                         DeletedStatus(operations[operation_id].targets))
    /\ UNCHANGED <<accounts, rules, nextOp, run, calls>>
    /\ UNCHANGED flowVars
    /\ UNCHANGED auxVars

\* POST /provision/{operation_id}/rollback: 404 when get_operation finds
\* nothing, 400 unless the operation is success or failed, else
\* ProvisionService.rollback_operation marks it rolled_back
RollbackEndpoint(operation_id) ==
    LET operation == GetOperation(operation_id)
    IN /\ IF operation = NoOperation
             \/ operation.status \notin {"success", "failed"}
          THEN UNCHANGED operations
          ELSE operations' =
                   [operations EXCEPT ![operation_id].status = "rolled_back"]
       /\ UNCHANGED <<accounts, rules, nextOp, run, calls>>
       /\ UNCHANGED flowVars
       /\ UNCHANGED auxVars

(* ----------------------- interactive decisions ------------------------ *)
\* WorkflowService.get_instance: the same answer for every id
GetInstance(instance_id) ==
    [id |-> instance_id, operation_id |-> MockOperationId,
     status |-> "pending", current_level |-> 1, total_levels |-> 3]

\* WorkflowService.can_approve
CanApprove(instance_id) == TRUE

\* WorkflowService._is_level_complete
IsLevelComplete(instance_id, level) == TRUE

\* a record_decision that moves to the level before
RecordDecisionBack(instance_id, decision) ==
    LET instance == GetInstance(instance_id)
    IN IF decision = "approved"
       THEN [workflow_complete |-> FALSE, status |-> "none",
             next_level |-> instance.current_level - 1]
       ELSE [workflow_complete |-> TRUE, status |-> "rejected",
             next_level |-> 0]

\* WorkflowService.record_decision: the result it returns
RecordDecision(instance_id, decision) ==
    LET instance == GetInstance(instance_id)
    IN IF decision = "approved"
          /\ IsLevelComplete(instance_id, instance.current_level)
       THEN IF instance.current_level >= instance.total_levels
            THEN [workflow_complete |-> TRUE, status |-> "approved",
                  next_level |-> 0]
            ELSE [workflow_complete |-> FALSE, status |-> "none",
                  next_level |-> instance.current_level + 1]
       ELSE IF decision = "rejected"
            THEN [workflow_complete |-> TRUE, status |-> "rejected",
                  next_level |-> 0]
            ELSE [workflow_complete |-> FALSE, status |-> "none",
                  next_level |-> 0]

\* ProvisionService.cancel_operation: nothing happens when get_operation
\* finds nothing
CancelOperation(ops, operation_id) ==
    IF GetOperation(operation_id) = NoOperation
    THEN ops
    ELSE [ops EXCEPT ![operation_id].status = "rejected"]

\* levels that ask for two approvals each
RequiredApprovalsTwo(level) == 2

\* required_approvals of a level, as _start_workflow reads it from the
\* configuration: every level of the two configurations asks for one
RequiredApprovals(level) == 1

\* what the log keeps of a call that record_decision answered
Decided(instance_id, decision, result) ==
    [instance |-> instance_id, decision |-> decision,
     level |-> GetInstance(instance_id).current_level,
     required |-> RequiredApprovals(GetInstance(instance_id).current_level),
     status |-> result.status, complete |-> result.workflow_complete,
     next_level |-> result.next_level, accepted |-> TRUE]

\* POST /workflow/instances/{id}/approve
ApproveWorkflow(instance_id) ==
    /\ Len(decisions) < MaxDecisions
    /\ CanApprove(instance_id)
    /\ LET instance == GetInstance(instance_id)
           result == RecordDecision(instance_id, "approved")
       IN /\ decisions' = Append(decisions,
                              Decided(instance_id, "approved", result))
          /\ IF result.workflow_complete
             THEN ContinueAfterApproval(instance.operation_id)
             ELSE UNCHANGED <<continues, run, calls, operations>>
    /\ UNCHANGED <<accounts, rules, nextOp, workflows, email, resolved>>
    /\ UNCHANGED auxVars

\* POST /workflow/instances/{id}/reject
RejectWorkflow(instance_id) ==
    /\ Len(decisions) < MaxDecisions
    /\ CanApprove(instance_id)
    /\ LET instance == GetInstance(instance_id)
           result == RecordDecision(instance_id, "rejected")
       IN /\ decisions' = Append(decisions,
                              Decided(instance_id, "rejected", result))
          /\ operations' = CancelOperation(operations, instance.operation_id)
    /\ UNCHANGED <<accounts, rules, nextOp, run, calls, workflows, email,
                   resolved, continues>>
    /\ UNCHANGED auxVars

\* POST /workflow/instances/{id}/cancel: cancel_instance logs and answers
\* {"cancelled": True}
CancelWorkflow(instance_id) ==
    /\ Len(decisions) < MaxDecisions
    /\ decisions' = Append(decisions,
                        Decided(instance_id, "cancelled",
                                [workflow_complete |-> TRUE,
                                 status |-> "cancelled", next_level |-> 0]))
    /\ UNCHANGED <<accounts, rules, nextOp, run, calls, operations, workflows,
                   email, resolved, continues>>
    /\ UNCHANGED auxVars

\* the stores and the handlers as they are when the gateway has started
InitProgram ==
    /\ accounts \in SUBSET Targets
    /\ rules = "v1"
    /\ nextOp = 0
    /\ run = NoRun
    /\ calls = <<>>
    /\ operations = [o \in OpIds |-> NoOperation]
    /\ workflows = [w \in OpIds |-> NoWorkflow]
    /\ email = [c \in Clickers |-> [pc |-> "idle", workflow_id |-> 0]]
    /\ resolved = [w \in OpIds |-> [tries |-> 0, ok |-> 0, cont |-> 0]]
    /\ continues = NoContinue
    /\ decisions = <<>>
    /\ run2 = NoRun

NoPure == [fn |-> "none"]

Init == InitProgram /\ pure = NoPure

\* one provisioning request, followed through execute_provisioning
Next ==
    \/ \E type \in OperationType, targets \in TargetLists :
            nextOp = 0 /\ ProvisionRequest(type, targets, FALSE, FALSE)
    \/ ExecStep
    \/ RollbackStep
    \/ \E o \in OpIds : DeleteOperation(o)
    \/ \E o \in OpIds : RollbackEndpoint(o)

Spec == Init /\ [][Next]_vars

\* the requests of the approval scenarios
FlowTypes == {"create"}

FlowTargetLists == {<<"LDAP", "SQL">>}

\* requests suspended behind an approval, the email links, the continue entry
\* point
NextFlow ==
    \/ \E type \in FlowTypes, targets \in FlowTargetLists,
          manager_email \in BOOLEAN :
            ProvisionRequest(type, targets, TRUE, manager_email)
    \/ RulesChange
    \/ \E c \in Clickers, w \in OpIds, action \in {"approve", "reject"} :
          \E token \in PresentedTokens(w) : EmailResolve(c, w, token, action)
    \/ \E c \in Clickers : EmailContinue(c)
    \/ \E o \in OpIds : ContinueCall(o)
    \/ \E o \in OpIds : DeleteOperation(o)

InitFlow == Init /\ accounts = {}

SpecFlow == InitFlow /\ [][NextFlow]_vars

\* WorkflowService.check_expired_workflows, the expiry reaper: its body is
\* "pass"
CheckExpiredWorkflows == UNCHANGED vars

\* a decision arrives by email for the workflow
EmailDecision(workflow_id) ==
    \E c \in Clickers :
        \/ EmailResolve(c, workflow_id, ApproveTokenOf(workflow_id), "approve")
        \/ EmailResolve(c, workflow_id, RejectTokenOf(workflow_id), "reject")

\* requests, decisions by email, resumptions and the reaper
NextFlowFair ==
    \/ \E type \in FlowTypes, targets \in FlowTargetLists,
          manager_email \in BOOLEAN :
            ProvisionRequest(type, targets, TRUE, manager_email)
    \/ \E c \in Clickers, w \in OpIds, action \in {"approve", "reject"} :
          \E token \in PresentedTokens(w) : EmailResolve(c, w, token, action)
    \/ \E c \in Clickers : EmailContinue(c)
    \/ CheckExpiredWorkflows

\* the approval flow with decisions, resumptions and the reaper scheduled
\* fairly: a decision that can be taken is eventually taken, a request that
\* resolved a token eventually runs on to the resumption, the reaper keeps
\* running
SpecFlowFair ==
    /\ InitFlow
    /\ [][NextFlowFair]_vars
    /\ \A w \in OpIds : WF_vars(EmailDecision(w))
    /\ \A c \in Clickers : WF_vars(EmailContinue(c))
    /\ WF_vars(CheckExpiredWorkflows)

(* ------------------------- workflow deadlines ------------------------- *)
\* config.timeout_hours, in ticks of the clock
TimeoutTicks == 1

\* timeout = datetime.utcnow() + timedelta(hours=config.timeout_hours)
ExpiresAt(created_at) == created_at + TimeoutTicks

\* time passes
ReaperTick ==
    /\ pure.fn = "reaper"
    /\ pure.now <= MaxClock
    /\ pure' = [pure EXCEPT !.now = @ + 1]
    /\ UNCHANGED <<accounts, rules, nextOp, run, calls, operations, run2>>
    /\ UNCHANGED flowVars

\* a request that needs approval, made at time 0
TimedRequest ==
    /\ pure.fn = "reaper"
    /\ pure.now = 0
    /\ \E type \in FlowTypes, targets \in FlowTargetLists,
          manager_email \in BOOLEAN :
            ProvisionRequest(type, targets, TRUE, manager_email)

\* requests for approval, decisions by email, the clock and the reaper
NextReaper ==
    \/ TimedRequest
    \/ \E c \in Clickers, w \in OpIds, action \in {"approve", "reject"} :
          \E token \in PresentedTokens(w) : EmailResolve(c, w, token, action)
    \/ \E c \in Clickers : EmailContinue(c)
    \/ ReaperTick
    \/ CheckExpiredWorkflows

InitReaper ==
    /\ InitProgram
    /\ accounts = {}
    /\ pure = [fn |-> "reaper", now |-> 0]

\* the clock advances and the reaper keeps running; whether a manager ever
\* answers is left open
SpecReaper ==
    /\ InitReaper
    /\ [][NextReaper]_vars
    /\ WF_vars(ReaperTick)
    /\ WF_vars(CheckExpiredWorkflows)
    /\ \A c \in Clickers : WF_vars(EmailContinue(c))

(* ----------------------- tokens and their bearer ---------------------- *)
NoPresentation ==
    [workflow_id |-> 0, token |-> 0, action |-> "none", issued |-> FALSE,
     workflow_before |-> "none", operation_before |-> "none",
     workflow_after |-> "none", operation_after |-> "none", answer |-> 0]

\* approval requests with a manager_email, and GET /approve-by-email with
\* every token a request can carry for either workflow and either action
NextTokens ==
    \/ \E type \in FlowTypes, targets \in FlowTargetLists :
          ProvisionRequest(type, targets, TRUE, TRUE)
    \/ \E c \in Clickers, w \in OpIds, action \in {"approve", "reject"} :
          \E token \in PresentedTokens(w) :
              EmailResolveLogged(c, w, token, action)
    \/ \E c \in Clickers : EmailContinue(c)

InitTokens ==
    /\ InitProgram
    /\ accounts = {}
    /\ pure = [fn |-> "tokens", last |-> NoPresentation]

SpecTokens == InitTokens /\ [][NextTokens]_vars

(* --------------------- a rejection after the approval ----------------- *)
\* POST /workflow/instances/{id}/reject for a workflow that was approved by
\* email and whose operation the handler has tried to resume
RejectAfterApproval(instance_id) ==
    /\ workflows[instance_id].status = "approved"
    /\ resolved[instance_id].cont >= 1
    /\ RejectWorkflow(instance_id)

\* approval requests, the two links of each email, the resumption, and the
\* reject endpoint used on an approved workflow
NextReject ==
    \/ \E type \in FlowTypes, targets \in FlowTargetLists :
          ProvisionRequest(type, targets, TRUE, TRUE)
    \/ \E c \in Clickers, w \in OpIds :
          \/ EmailResolveLogged(c, w, ApproveTokenOf(w), "approve")
          \/ EmailResolveLogged(c, w, RejectTokenOf(w), "reject")
    \/ \E c \in Clickers : EmailContinue(c)
    \/ \E i \in OpIds : RejectAfterApproval(i)

InitReject ==
    /\ InitProgram
    /\ accounts = {}
    /\ pure = [fn |-> "tokens", last |-> NoPresentation]

SpecReject == InitReject /\ [][NextReject]_vars

(* ------------------- two requests for one account -------------------- *)
\* A second POST /provision for the same account id arrives while the first
\* execute_provisioning waits on a connector call: nothing in _provision_direct
\* or execute_provisioning takes a lock, so the new handler starts at once and
\* the first stays suspended at its await.
ConcurrentRequest(type, targets) ==
    /\ run.pc \in {"exec", "rollback"}
    /\ run2 = NoRun
    /\ nextOp < MaxOps
    /\ Len(targets) > 0
    /\ nextOp' = nextOp + 1
    /\ run2' = run
    /\ run' = NewRun(nextOp + 1, type, targets, CalcAttrsFor(rules, targets))
    /\ UNCHANGED <<accounts, rules, calls, operations, pure>>
    /\ UNCHANGED flowVars

\* the event loop resumes the suspended execute_provisioning when its connector
\* call returns, and the running one waits on its own call or has finished
Switch ==
    /\ run2.pc \in {"exec", "rollback"}
    /\ run' = run2
    /\ run2' = run
    /\ UNCHANGED <<accounts, rules, nextOp, calls, operations, pure>>
    /\ UNCHANGED flowVars

ConcTypes == {"create", "delete"}

ConcTargetLists == {<<"LDAP", "SQL">>, <<"SQL">>}

NextConc ==
    \/ \E type \in ConcTypes, targets \in ConcTargetLists :
            nextOp = 0 /\ ProvisionRequest(type, targets, FALSE, FALSE)
    \/ \E type \in ConcTypes, targets \in ConcTargetLists :
            ConcurrentRequest(type, targets)
    \/ Switch
    \/ ExecStep
    \/ RollbackStep

InitConc == Init /\ accounts = {}

SpecConc == InitConc /\ [][NextConc]_vars

\* the interactive approve, reject and cancel endpoints
NextDecide ==
    \/ \E i \in OpIds : ApproveWorkflow(i)
    \/ \E i \in OpIds : RejectWorkflow(i)
    \/ \E i \in OpIds : CancelWorkflow(i)

InitDecide == Init /\ accounts = {}

SpecDecide == InitDecide /\ [][NextDecide]_vars

(* ------------------------- the audit sink fails ----------------------- *)
\* direct provisioning requests while some of the handler's audit calls raise
NextAudit ==
    \/ \E type \in ConcTypes, targets \in ConcTargetLists :
          ProvisionRequest(type, targets, FALSE, FALSE)
    \/ ExecStep
    \/ RollbackStep

InitAudit ==
    /\ InitProgram
    /\ pure \in [fn : {"provision_audit"}, fails : SUBSET AuditCalls]

SpecAudit == InitAudit /\ [][NextAudit]_vars

(* ------------------- rule engine: calculate_attributes ---------------- *)
\* Attribute names and values.  A value is a sequence of text pieces; what a
\* template renders is the concatenation of the pieces it is given.
SourceAttributes == {"firstname", "email"}
TargetAttributes == {"uid", "mail"}
RuleTargets == {"LDAP", "SQL"}

\* Python's None and True/False as they sit in a dict
NoneValue == <<"#None">>
TrueValue == <<"#True">>
FalseValue == <<"#False">>

EmptyDict == [k \in {} |-> <<>>]

\* d[k] = v
Put(d, k, v) == [x \in DOMAIN d \cup {k} |-> IF x = k THEN v ELSE d[x]]

\* d.get(k)
Get(d, k) == IF k \in DOMAIN d THEN d[k] ELSE NoneValue

\* what {{ name }} renders: the default Undefined renders as the empty
\* string, None as "None", a bool as "True" or "False"
RenderValue(context, name) ==
    IF name \notin DOMAIN context THEN <<>>
    ELSE IF context[name] = NoneValue THEN <<"None">>
    ELSE IF context[name] = TrueValue THEN <<"True">>
    ELSE IF context[name] = FalseValue THEN <<"False">>
    ELSE context[name]

\* the conversion of the rendered text: 'true' and 'false' become bools
\* (text that reads as a number becomes a number; no rendered text of the
\* model reads as one)
ConvertType(text) ==
    IF text \in {<<"true">>, <<"True">>} THEN TrueValue
    ELSE IF text \in {<<"false">>, <<"False">>} THEN FalseValue
    ELSE text

NoCond == [key |-> "none", expected |-> <<>>]

\* simple equality conditions: actual = context.get(key) must equal expected
EvaluateConditions(conditions, context) ==
    Get(context, conditions.key) = conditions.expected

\* template.render(**context) for the kinds of expression:
\*   const   a literal text
\*   ref     {{ name }}
\*   filter  {{ name | normalize_name }}: raises on an undefined or None name
\*   now     {{ now() }}: the global 'now' is datetime.utcnow
\*   bad     a template that does not compile
Render(rule, context, clock) ==
    CASE rule.kind = "const" -> [ok |-> TRUE, text |-> <<rule.arg>>]
      [] rule.kind = "ref" ->
            [ok |-> TRUE, text |-> RenderValue(context, rule.arg)]
      [] rule.kind = "filter" ->
            IF rule.arg \notin DOMAIN context
               \/ context[rule.arg] \in {NoneValue, TrueValue, FalseValue}
                THEN [ok |-> FALSE, text |-> <<>>]
                ELSE [ok |-> TRUE, text |-> <<"normalized">> \o context[rule.arg]]
      [] rule.kind = "now" ->
            [ok |-> TRUE, text |-> <<"utc", ToString(clock)>>]
      [] OTHER -> [ok |-> FALSE, text |-> <<>>]

\* _execute_rule: None when the conditions do not hold, else the converted
\* rendering; ok = FALSE stands for the ValueError it raises
ExecuteRule(rule, context, clock) ==
    IF rule.conditions # NoCond /\ ~EvaluateConditions(rule.conditions, context)
        THEN [ok |-> TRUE, value |-> NoneValue]
    ELSE LET r == Render(rule, context, clock)
         IN  [ok |-> r.ok, value |-> ConvertType(r.text)]

\* sorted(..., key=priority, reverse=True): stable, so rules of equal
\* priority keep the order of the list
RECURSIVE InsertByPriority(_, _)
InsertByPriority(sorted, rule) ==
    IF sorted = <<>> THEN <<rule>>
    ELSE IF Head(sorted).priority >= rule.priority
        THEN <<Head(sorted)>> \o InsertByPriority(Tail(sorted), rule)
    ELSE <<rule>> \o sorted

RECURSIVE SortByPriority(_)
SortByPriority(rs) ==
    IF rs = <<>> THEN <<>>
    ELSE InsertByPriority(SortByPriority(SubSeq(rs, 1, Len(rs) - 1)), rs[Len(rs)])

\* the rules of the target in the order of the list, not sorted
TargetRulesUnsorted(rs, target_name) ==
    SelectSeq(rs, LAMBDA r : r.target_system = target_name)

TargetRules(rs, target_name) ==
    SortByPriority(SelectSeq(rs, LAMBDA r : r.target_system = target_name))

\* the except branch with a value written all the same
AfterFailureWritesNone(st, rule) ==
    [st EXCEPT !.failed = @ \cup {rule.id},
               !.result = Put(@, rule.target_attribute, NoneValue),
               !.context = Put(@, rule.target_attribute, NoneValue)]

\* the except branch: the failure is logged and the loop continues
AfterFailure(st, rule) == [st EXCEPT !.failed = @ \cup {rule.id}]

\* one turn of the rule loop.  seen records the context each rule was
\* handed, failed the rule ids the error log names.
ApplyRule(st, rule, clock) ==
    LET r == ExecuteRule(rule, st.context, clock)
        handed == [st EXCEPT !.seen = Append(@, [rule |-> rule.id,
                                                   context |-> st.context])]
    IN  IF r.ok
            THEN [handed EXCEPT
                    !.result = Put(@, rule.target_attribute, r.value),
                    !.context = Put(@, rule.target_attribute, r.value)]
            ELSE AfterFailure(handed, rule)

RECURSIVE ApplyRules(_, _, _)
ApplyRules(st, rs, clock) ==
    IF rs = <<>> THEN st
    ELSE ApplyRules(ApplyRule(st, Head(rs), clock), Tail(rs), clock)

\* the context of the previous target carried into the next one
InitialContextCarried(attributes, previous) ==
    [k \in DOMAIN attributes \cup DOMAIN previous |->
        IF k \in DOMAIN previous THEN previous[k] ELSE attributes[k]]

\* context = {**attributes}: built anew for every target
InitialContext(attributes, previous) == attributes

\* the loop over target_systems; previous is the context the loop variable
\* holds from the target before
RECURSIVE CalcTargets(_, _, _, _, _, _)
CalcTargets(attributes, targets, rs, clock, previous, acc) ==
    IF targets = <<>> THEN acc
    ELSE LET target_name == Head(targets)
             st == ApplyRules([context |-> InitialContext(attributes, previous),
                               result |-> EmptyDict,
                               failed |-> {},
                               seen |-> <<>>],
                              TargetRules(rs, target_name), clock)
         IN  CalcTargets(attributes, Tail(targets), rs, clock, st.context,
                         Put(acc, target_name, st))

CalculateAttributes(attributes, targets, rs, clock) ==
    CalcTargets(attributes, targets, rs, clock, EmptyDict, EmptyDict)

\* the dict calculate_attributes returns
ResultsOf(calc) == [t \in DOMAIN calc |-> calc[t].result]

\* rule sets: patterned on the default rules (a login built with a filter, a
\* mail derived from the login, a second target with its own rules), with a
\* rule that cannot compile, a rule that reads the clock and a conditional
\* rule added
Rule(id, target_system, target_attribute, priority, kind, arg, conditions) ==
    [id |-> id, target_system |-> target_system,
     target_attribute |-> target_attribute, priority |-> priority,
     kind |-> kind, arg |-> arg, conditions |-> conditions]

RulePool ==
    { Rule("ldap_uid", "LDAP", "uid", 100, "filter", "firstname", NoCond),
      Rule("ldap_mail", "LDAP", "mail", 80, "ref", "uid", NoCond),
      Rule("ldap_bad", "LDAP", "uid", 90, "bad", "", NoCond),
      Rule("sql_username", "SQL", "uid", 100, "ref", "email", NoCond),
      Rule("sql_email", "SQL", "mail", 90, "ref", "uid", NoCond),
      Rule("sql_active", "SQL", "mail", 90, "const", "true",
           [key |-> "firstname", expected |-> <<"jean">>]) }

ClockRule == Rule("ldap_stamp", "LDAP", "uid", 80, "now", "", NoCond)

\* lists of distinct rules of at most n rules
RuleLists(pool, n) ==
    { rs \in UNION { [1..k -> pool] : k \in 0..n } :
        \A i, j \in DOMAIN rs : i # j => rs[i] # rs[j] }

AttributeSets ==
    { [k \in ks |-> IF k = "firstname" THEN <<"jean">> ELSE <<"j@x">>] :
        ks \in SUBSET SourceAttributes }

RuleTargetLists == {<<"LDAP", "SQL">>, <<"SQL", "LDAP">>, <<"LDAP">>}

\* one call of calculate_attributes at the time the clock shows
Calculate ==
    /\ pure.fn = "calculate_attributes"
    /\ Len(pure.runs) < MaxRuns
    /\ pure' = [pure EXCEPT !.runs = Append(@,
                  [clock |-> pure.clock,
                   calc |-> CalculateAttributes(pure.attributes, pure.targets,
                                                pure.rules, pure.clock)])]
    /\ UNCHANGED <<accounts, rules, nextOp, run, calls, operations, run2>>
    /\ UNCHANGED flowVars

\* time passes between two calls
Tick ==
    /\ pure.fn = "calculate_attributes"
    /\ pure.clock < MaxClock
    /\ pure' = [pure EXCEPT !.clock = @ + 1]
    /\ UNCHANGED <<accounts, rules, nextOp, run, calls, operations, run2>>
    /\ UNCHANGED flowVars

PureRules(rule_lists) ==
    [fn : {"calculate_attributes"}, attributes : AttributeSets,
     targets : RuleTargetLists, rules : rule_lists, clock : {0},
     runs : {<<>>}]

\* calculate_attributes on every input of the bounded sets, the clock fixed
NextRules == Calculate

InitRules ==
    /\ InitProgram
    /\ accounts = {}
    /\ pure \in PureRules(RuleLists(RulePool, MaxRules))

SpecRules == InitRules /\ [][NextRules]_vars

\* the same with a rule that reads the clock, called at different times
NextRulesClock ==
    \/ Calculate
    \/ Tick

InitRulesClock ==
    /\ InitProgram
    /\ accounts = {}
    /\ pure \in PureRules(RuleLists(RulePool \cup {ClockRule}, 1))

SpecRulesClock == InitRulesClock /\ [][NextRulesClock]_vars

(* --------------------------- reconciliation --------------------------- *)
\* An account, on the hub side or on a target: its id and its attributes.
NoAccount == [id |-> "none", attrs |-> EmptyDict]
NoJob == [id |-> "none"]

\* a get_job that finds the job
GetJobFound(job_id) == [id |-> job_id]

\* get_job: the DB query is not written, None is returned for every id
GetJob(job_id) == NoJob

\* the attribute-name mapping of a target, in the order the dict lists it
Mappings(target_system) ==
    CASE target_system = "LDAP" ->
            << <<"firstname", "givenName">>, <<"lastname", "sn">>,
               <<"email", "mail">> >>
      [] target_system = "SQL" ->
            << <<"firstname", "first_name">>, <<"lastname", "last_name">>,
               <<"email", "email">> >>
      [] target_system = "ODOO" ->
            << <<"name", "name">>, <<"email", "login">> >>
      [] OTHER -> <<>>

\* _compare_attributes: one entry per mapped attribute whose two values
\* (None for a missing one) differ, exact comparison
RECURSIVE CompareMapped(_, _, _)
CompareMapped(midpoint_account, target_account, attr_map) ==
    IF attr_map = <<>> THEN <<>>
    ELSE LET mp_value == Get(midpoint_account.attrs, Head(attr_map)[1])
             target_value == Get(target_account.attrs, Head(attr_map)[2])
             rest == CompareMapped(midpoint_account, target_account, Tail(attr_map))
         IN  IF mp_value # target_value
                THEN <<[attribute |-> Head(attr_map)[1],
                        midpoint_value |-> mp_value,
                        target_value |-> target_value]>> \o rest
                ELSE rest

CompareAttributes(midpoint_account, target_account, target_system) ==
    CompareMapped(midpoint_account, target_account, Mappings(target_system))

\* connector.get_account(account["id"]): the target's account of that id
TargetGetAccount(target_accounts, account_id) ==
    IF \E i \in DOMAIN target_accounts : target_accounts[i].id = account_id
        THEN target_accounts[CHOOSE i \in DOMAIN target_accounts :
                                target_accounts[i].id = account_id]
        ELSE NoAccount

\* Discrepancy(...): midpoint_value is the hub account, or the list of
\* mismatches (field mismatches), or None (NoAccount); id is the n of
\* f"disc-{n}"
Discrepancy(id, account_id, target_system, discrepancy_type, midpoint_value, mismatches, target_value) ==
    [id |-> id, account_id |-> account_id, target_system |-> target_system,
     discrepancy_type |-> discrepancy_type, midpoint_value |-> midpoint_value,
     mismatches |-> mismatches, target_value |-> target_value,
     resolved |-> FALSE]

\* the loop over the hub accounts for one target.  st holds the job's
\* processed_accounts and errors and the discrepancies list; failing is the
\* set of account ids for which connector.get_account raises.
RECURSIVE CheckHubAccounts(_, _, _, _, _)
CheckHubAccounts(midpoint_accounts, target_accounts, target_system, failing, st) ==
    IF midpoint_accounts = <<>> THEN st
    ELSE LET account == Head(midpoint_accounts)
             target_account == TargetGetAccount(target_accounts, account.id)
             mismatches == CompareAttributes(account, target_account, target_system)
             n == Len(st.discrepancies)
             counted == [st EXCEPT !.processed_accounts = @ + 1]
             found ==
                IF account.id \in failing
                    THEN [counted EXCEPT !.errors =
                            Append(@, [account_id |-> account.id,
                                       target |-> target_system])]
                ELSE IF target_account = NoAccount
                    THEN [counted EXCEPT !.discrepancies = Append(@,
                            Discrepancy(n, account.id, target_system,
                                        "missing_in_target", account, <<>>, NoAccount))]
                ELSE IF mismatches # <<>>
                    THEN [counted EXCEPT !.discrepancies = Append(@,
                            Discrepancy(n, account.id, target_system,
                                        "attribute_mismatch", NoAccount, mismatches,
                                        target_account))]
                ELSE counted
         IN  CheckHubAccounts(Tail(midpoint_accounts), target_accounts,
                              target_system, failing, found)

\* the loop over connector.list_accounts(): accounts whose id no hub account
\* has
RECURSIVE CheckOrphans(_, _, _, _)
CheckOrphans(midpoint_ids, target_accounts, target_system, st) ==
    IF target_accounts = <<>> THEN st
    ELSE LET target_acc == Head(target_accounts)
             found ==
                IF target_acc.id \notin midpoint_ids
                    THEN [st EXCEPT !.discrepancies = Append(@,
                            Discrepancy(Len(st.discrepancies), target_acc.id,
                                        target_system, "missing_in_midpoint",
                                        NoAccount, <<>>, target_acc))]
                    ELSE st
         IN  CheckOrphans(midpoint_ids, Tail(target_accounts), target_system, found)

\* one turn of the loop over job.target_systems, from the job as it stands
ReconcileTarget(midpoint_accounts, target_accounts, target_system, failing, st) ==
    CheckOrphans({midpoint_accounts[i].id : i \in DOMAIN midpoint_accounts},
                 target_accounts, target_system,
                 CheckHubAccounts(midpoint_accounts, target_accounts,
                                  target_system, failing, st))

\* the inputs: hub accounts as MidPoint lists them, the accounts of a target
\* under the target's attribute names
AccountIds == {"u1", "u2"}
Firstnames == {<<"jean">>, <<"joan">>}
Emails == {<<>>, <<"j@x">>, <<"J@X">>}

\* an account with the given attribute names; an empty email is no email
MakeAccount(id, firstname_attr, firstname, email_attr, address) ==
    [id |-> id,
     attrs |-> [k \in {"username", firstname_attr}
                        \cup (IF address = <<>> THEN {} ELSE {email_attr}) |->
                   IF k = "username" THEN <<id>>
                   ELSE IF k = firstname_attr THEN firstname ELSE address]]

MappedName(target_system, mp_attr) ==
    LET m == Mappings(target_system)
    IN  m[CHOOSE i \in DOMAIN m : m[i][1] = mp_attr][2]

HubAccounts ==
    { MakeAccount(id, "firstname", f, "email", e) :
        id \in AccountIds, f \in Firstnames, e \in Emails }

TargetAccounts(target_system) ==
    { MakeAccount(id, MappedName(target_system, "firstname"), f,
                  MappedName(target_system, "email"), e) :
        id \in AccountIds, f \in Firstnames, e \in Emails }

\* lower-casing, the normalisation of an identity key
Lower(piece) ==
    CASE piece = "J@X" -> "j@x"
      [] OTHER -> piece

Normalized(value) == [i \in DOMAIN value |-> Lower(value[i])]

\* the identity key of an account: its normalised email, else its normalised
\* username
IdentityKey(account, email_attr) ==
    IF email_attr \in DOMAIN account.attrs
        THEN Normalized(account.attrs[email_attr])
        ELSE Normalized(Get(account.attrs, "username"))

\* lists of at most n accounts, no two with the same id or the same identity
\* key
AccountLists(pool, email_attr, n) ==
    { as \in UNION { [1..k -> pool] : k \in 0..n } :
        \A i, j \in DOMAIN as :
            i # j => /\ as[i].id # as[j].id
                     /\ IdentityKey(as[i], email_attr)
                            # IdentityKey(as[j], email_attr) }

ReconTargets == {"LDAP", "SQL"}

PureRecon ==
    UNION { [fn : {"run_reconciliation"}, target_system : {t},
             midpoint_accounts : AccountLists(HubAccounts, "email", MaxAccounts),
             target_accounts : AccountLists(TargetAccounts(t),
                                            MappedName(t, "email"), MaxAccounts),
             failing : SUBSET AccountIds,
             outcome : {"none"}, processed_accounts : {0}, errors : {<<>>},
             discrepancies : {<<>>}] : t \in ReconTargets }

\* run_reconciliation, started as a background task by POST /reconcile/start:
\* job = await self.get_job(job_id) is None, job.status = "in_progress"
\* raises inside the try, and job.status = "failed" raises again inside the
\* except branch, so the task ends with the exception and nothing compared
RunReconciliation ==
    /\ pure.fn = "run_reconciliation"
    /\ pure.outcome = "none"
    /\ pure' =
         IF GetJob("job") = NoJob
            THEN [pure EXCEPT !.outcome = "raised"]
            ELSE LET st == ReconcileTarget(pure.midpoint_accounts,
                                           pure.target_accounts,
                                           pure.target_system, pure.failing,
                                           [processed_accounts |-> 0,
                                            errors |-> <<>>,
                                            discrepancies |-> <<>>])
                 IN  [pure EXCEPT
                        !.outcome = "completed",
                        !.processed_accounts = st.processed_accounts,
                        !.errors = st.errors,
                        !.discrepancies = st.discrepancies]
    /\ UNCHANGED <<accounts, rules, nextOp, run, calls, operations, run2>>
    /\ UNCHANGED flowVars

NextRecon == RunReconciliation

InitRecon ==
    /\ InitProgram
    /\ accounts = {}
    /\ pure \in PureRecon

SpecRecon == InitRecon /\ [][NextRecon]_vars

(* ----------------------- resolving discrepancies ---------------------- *)
\* get_discrepancies: [] for every job
GetDiscrepancies(job_id) == <<>>

ResolveActions == {"use_midpoint", "use_target", "manual", "ignore"}
WriteOutcomes == {"ok", "raise"}

\* the write one discrepancy gets under an action: a connector
\* create_account or update_account, a hub update_account, or none (id names
\* the discrepancy the write was made for)
WriteFor(disc, action) ==
    IF action = "use_midpoint" /\ disc.discrepancy_type = "missing_in_target"
        THEN <<[to |-> "connector", call |-> "create_account",
                id |-> disc.id, account_id |-> disc.account_id]>>
    ELSE IF action = "use_midpoint" /\ disc.discrepancy_type = "attribute_mismatch"
        THEN <<[to |-> "connector", call |-> "update_account",
                id |-> disc.id, account_id |-> disc.account_id]>>
    ELSE IF action = "use_target"
        THEN <<[to |-> "midpoint", call |-> "update_account",
                id |-> disc.id, account_id |-> disc.account_id]>>
    ELSE <<>>

\* the loop of resolve_discrepancies: the write, then resolved = True and
\* the count, unless the write raised; no test of disc.resolved comes first
RECURSIVE ResolveLoop(_, _, _, _)
ResolveLoop(discrepancies, action, outcome, acc) ==
    IF discrepancies = <<>> THEN acc
    ELSE LET disc == Head(discrepancies)
             write == WriteFor(disc, action)
             next ==
                IF write # <<>> /\ outcome = "raise"
                    THEN [acc EXCEPT !.writes = @ \o write,
                                     !.errors = Append(@, disc.id),
                                     !.discrepancies = Append(@, disc)]
                    ELSE [acc EXCEPT !.writes = @ \o write,
                                     !.resolved = @ + 1,
                                     !.discrepancies =
                                         Append(@, [disc EXCEPT !.resolved = TRUE])]
         IN  ResolveLoop(Tail(discrepancies), action, outcome, next)

\* if discrepancy_ids: keep the discrepancies whose id is listed
Selected(discrepancies, discrepancy_ids) ==
    IF discrepancy_ids = <<>> THEN discrepancies
    ELSE SelectSeq(discrepancies, LAMBDA d : d.id \in Range(discrepancy_ids))

\* resolve_discrepancies(job_id, action, discrepancy_ids, resolved_by): works
\* on what get_discrepancies returns and stores nothing afterwards
ResolveDiscrepancies(outcome) ==
    /\ pure.fn = "resolve_discrepancies"
    /\ Len(pure.results) < MaxResolves
    /\ LET r == ResolveLoop(Selected(GetDiscrepancies("job"), pure.discrepancy_ids),
                            pure.action, outcome,
                            [writes |-> <<>>, errors |-> <<>>, resolved |-> 0,
                             discrepancies |-> <<>>])
       IN  pure' = [pure EXCEPT !.results = Append(@, r)]
    /\ UNCHANGED <<accounts, rules, nextOp, run, calls, operations, run2>>
    /\ UNCHANGED flowVars

\* what a reconciliation reports to its caller: discrepancies disc-0,
\* disc-1, ... of the three types
RECURSIVE ReportedLists(_)
ReportedLists(n) ==
    IF n = 0 THEN {<<>>}
    ELSE ReportedLists(n - 1) \cup
         { Append(ds, Discrepancy(Len(ds), "u1", "LDAP", type, NoAccount, <<>>,
                                  NoAccount)) :
             ds \in {l \in ReportedLists(n - 1) : Len(l) = n - 1},
             type \in {"missing_in_target", "missing_in_midpoint",
                       "attribute_mismatch"} }

\* discrepancy_ids: None or empty for all, or a list of ids
IdLists(n) ==
    { ids \in UNION { [1..k -> 0..(n - 1)] : k \in 0..n } :
        \A i, j \in DOMAIN ids : i < j => ids[i] < ids[j] }

PureResolve ==
    [fn : {"resolve_discrepancies"}, reported : ReportedLists(MaxAccounts),
     action : ResolveActions, discrepancy_ids : IdLists(MaxAccounts),
     results : {<<>>}]

NextResolve == \E outcome \in WriteOutcomes : ResolveDiscrepancies(outcome)

InitResolve ==
    /\ InitProgram
    /\ accounts = {}
    /\ pure \in PureResolve

SpecResolve == InitResolve /\ [][NextResolve]_vars

(* ------------------------ reconciliation jobs ------------------------- *)
\* targets = target_systems or [LDAP, SQL, ODOO]
JobTargets(target_systems) ==
    IF target_systems = <<>> THEN <<"LDAP", "SQL", "ODOO">> ELSE target_systems

\* create_job: a new job, status "pending", whatever jobs there are
CreateJob(id, target_systems) ==
    [id |-> id, status |-> "pending",
     target_systems |-> JobTargets(target_systems), task |-> "scheduled"]

ActiveJobStatus == {"pending", "in_progress"}

\* POST /reconcile/start: create_job, the audit entry, the background task
\* added, and the job reported to the caller
StartReconciliation(target_systems) ==
    /\ pure.fn = "start_reconciliation"
    /\ Len(pure.jobs) < MaxJobs
    /\ pure' = [pure EXCEPT !.jobs =
                  Append(@, CreateJob(Len(pure.jobs) + 1, target_systems))]
    /\ UNCHANGED <<accounts, rules, nextOp, run, calls, operations, run2>>
    /\ UNCHANGED flowVars

\* the background task of job j: run_reconciliation(job.id) does not find
\* the job and ends by raising; the job created stays as it was
BackgroundRun(j) ==
    /\ pure.fn = "start_reconciliation"
    /\ j \in DOMAIN pure.jobs
    /\ pure.jobs[j].task = "scheduled"
    /\ pure' = [pure EXCEPT !.jobs[j].task =
                  IF GetJob(pure.jobs[j].id) = NoJob THEN "raised" ELSE "completed"]
    /\ UNCHANGED <<accounts, rules, nextOp, run, calls, operations, run2>>
    /\ UNCHANGED flowVars

NextJobs ==
    \/ \E target_systems \in TargetLists : StartReconciliation(target_systems)
    \/ \E j \in 1..MaxJobs : BackgroundRun(j)

InitJobs ==
    /\ InitProgram
    /\ accounts = {}
    /\ pure = [fn |-> "start_reconciliation", jobs |-> <<>>]

SpecJobs == InitJobs /\ [][NextJobs]_vars

(* ===================== orchestrator properties ======================== *)
\* indexes of the calls of the apply loop that did what they were asked to
Applied == {i \in DOMAIN calls : calls[i].phase = "apply" /\ calls[i].outcome = "ok"}

\* indexes of the compensation calls made for a target
Compensations(target) ==
    {j \in DOMAIN calls : calls[j].phase = "rollback" /\ calls[j].target = target}

\* a create operation whose execute_provisioning has finished by raising
CreateAborted == run.pc = "done" /\ run.type = "create" /\ run.raised

C2_NoCallAfterFailure ==
    \A i, j \in DOMAIN calls :
        (i < j /\ calls[i].phase = "apply" /\ CallFailed(calls[i].outcome))
            => calls[j].phase # "apply"

\* C3: a finished operation of any type is never partially applied: either
\* every target succeeded and the status is success, or the status is failed or
\* rolled_back and every mutation applied has a recorded RollbackAction whose
\* execution was attempted.
C3_NeverPartiallyApplied ==
    run.pc = "done" =>
        \/ /\ run.status = "success"
           /\ \A i \in DOMAIN calls : calls[i].outcome = "ok"
        \/ /\ run.status \in {"failed", "rolled_back"}
           /\ \A i \in Applied :
                /\ \E a \in DOMAIN run.rollback_actions :
                     run.rollback_actions[a].target_system = calls[i].target
                /\ Compensations(calls[i].target) # {}

(* ==================== approval-by-email properties ==================== *)
\* requests that resolved a token of the workflow and have not yet resumed the
\* operation
InFlight(workflow_id) ==
    Cardinality({c \in Clickers : /\ email[c].pc = "continue"
                                  /\ email[c].workflow_id = workflow_id})

C8_RejectIsTerminal ==
    \A k \in DOMAIN decisions :
        decisions[k].decision = "rejected" =>
            LET instance == GetInstance(decisions[k].instance)
            IN /\ instance.status = "rejected"
               /\ StoredStatus(instance.operation_id) = "rejected"

\* C9: after an approval that completed its level the instance is one level
\* further, or APPROVED when that was the last level.
C9_ApprovalAdvancesLevel ==
    \A k \in DOMAIN decisions :
        decisions[k].decision = "approved" =>
            LET instance == GetInstance(decisions[k].instance)
            IN \/ instance.current_level > decisions[k].level
               \/ instance.status = "approved"

\* C10: once an instance has been rejected or cancelled, a later decision on it
\* is not accepted.
C10_TerminalRejectsDecisions ==
    \A j, k \in DOMAIN decisions :
        (/\ j < k
         /\ decisions[j].instance = decisions[k].instance
         /\ decisions[j].decision \in {"rejected", "cancelled"}
         /\ decisions[k].decision \in {"approved", "rejected"})
            => ~decisions[k].accepted

\* C11: over the decisions taken on an instance the level the instance is at
\* never decreases, and the level an approval moves to lies above the level it
\* was given at.
C11_LevelNeverDecreases ==
    /\ \A j, k \in DOMAIN decisions :
         (j < k /\ decisions[j].instance = decisions[k].instance)
            => decisions[k].level >= decisions[j].level
    /\ \A k \in DOMAIN decisions :
         (decisions[k].decision = "approved" /\ ~decisions[k].complete)
            => decisions[k].next_level > decisions[k].level

\* two approvals in a row on one instance
C11_Witness ==
    \E j, k \in DOMAIN decisions :
        /\ j < k
        /\ decisions[j].instance = decisions[k].instance
        /\ decisions[j].decision = "approved"
        /\ decisions[k].decision = "approved"
        /\ decisions[k].next_level = decisions[k].level + 1

\* C12: the status of an operation that is success, failed, rolled_back or
\* rejected is never changed by a later action.
C12_TerminalStatusFinal ==
    [][\A o \in OpIds :
          operations[o].status \in TerminalStatus
              => operations'[o].status = operations[o].status]_vars

\* C13: under fair scheduling of the decisions and of the reaper every
\* operation that is awaiting approval eventually reaches a terminal status,
\* and every pending workflow eventually leaves pending.
C13_EveryOperationFinishes ==
    \A o \in OpIds :
        /\ (operations[o].status = "awaiting_approval")
               ~> (operations[o].status \in TerminalStatus)
        /\ (workflows[o].status = "pending")
               ~> (workflows[o].status \in {"approved", "rejected"})

\* workflows created for the operation
WorkflowsOf(operation_id) ==
    {w \in OpIds : /\ workflows[w] # NoWorkflow
                   /\ workflows[w].operation_id = operation_id}

\* C14: every request made with require_approval has its operation stored,
\* exactly one workflow with at least one level created for it, and no
\* connector call made for it while that workflow is not approved.
C14_SuspendedAndPersisted ==
    \A o \in 1..nextOp :
        /\ operations[o] # NoOperation
        /\ Cardinality(WorkflowsOf(o)) = 1
        /\ \A w \in WorkflowsOf(o) :
             /\ workflows[w].total_levels >= 1
             /\ workflows[w].status # "approved"
                  => \A i \in DOMAIN calls : calls[i].op # o

\* the operation has been executed to success with one create_account call
\* per target, in the order of its target list
CreatedInOrder(operation_id) ==
    /\ operations[operation_id].status = "success"
    /\ run.id = operation_id
    /\ Len(calls) = Len(operations[operation_id].targets)
    /\ \A i \in DOMAIN calls :
         /\ calls[i].kind = "create"
         /\ calls[i].target = operations[operation_id].targets[i]

\* C15: once the workflow of a create operation awaiting approval is approved,
\* the operation eventually is success, with exactly one create_account call
\* per target in request order.
C15_ApprovalLeadsToSuccess ==
    \A o \in OpIds :
        (/\ operations[o].status = "awaiting_approval"
         /\ \E w \in WorkflowsOf(o) : workflows[w].status = "approved")
            ~> CreatedInOrder(o)

\* C16: the connector calls of two operations on the same account id never
\* interleave: between two calls of one operation there is no call of another.
C16_NoInterleaving ==
    \A i, j, k \in DOMAIN calls :
        (i < j /\ j < k /\ calls[i].op = calls[k].op)
            => calls[j].op = calls[i].op

\* a second rule for an attribute another rule of the target already writes,
\* at a lower priority
OverrideRule == Rule("ldap_login", "LDAP", "uid", 50, "ref", "email", NoCond)

\* calculate_attributes on rule sets in which two rules of different
\* priority write one attribute
NextRulesOrder == Calculate

InitRulesOrder ==
    /\ InitProgram
    /\ accounts = {}
    /\ pure \in PureRules(RuleLists(RulePool \cup {OverrideRule}, MaxRules))

SpecRulesOrder == InitRulesOrder /\ [][NextRulesOrder]_vars

(* ------------------- the counters of a reconciliation job ------------- *)
\* the job as create_job built it: all three counters 0
NewJob(target_systems) ==
    [status |-> "pending", target_systems |-> JobTargets(target_systems),
     total_accounts |-> 0, processed_accounts |-> 0, discrepancies_found |-> 0]

\* the loop over job.target_systems: every target goes through all the hub
\* accounts
RECURSIVE ReconcileTargets(_, _, _, _)
ReconcileTargets(midpoint_accounts, target_accounts, target_systems, st) ==
    IF target_systems = <<>> THEN st
    ELSE ReconcileTargets(midpoint_accounts, target_accounts,
                          Tail(target_systems),
                          ReconcileTarget(midpoint_accounts,
                                          target_accounts[Head(target_systems)],
                                          Head(target_systems), {}, st))

\* run_reconciliation with the job's counters: get_job finds nothing and the
\* task ends by raising, the job left as it was created; with a job found,
\* total_accounts is the number of hub accounts, processed_accounts counts
\* every account of every target's turn, and discrepancies_found is set at
\* the end
RunReconciliationJob ==
    /\ pure.fn = "reconciliation_job"
    /\ pure.outcome = "none"
    /\ pure' =
         IF GetJob("job") = NoJob
            THEN [pure EXCEPT !.outcome = "raised"]
            ELSE LET st == ReconcileTargets(pure.midpoint_accounts,
                                            pure.target_accounts,
                                            pure.job.target_systems,
                                            [processed_accounts |-> 0,
                                             errors |-> <<>>,
                                             discrepancies |-> <<>>])
                 IN  [pure EXCEPT
                        !.outcome = "completed",
                        !.discrepancies = st.discrepancies,
                        !.job = [@ EXCEPT
                            !.status = "completed",
                            !.total_accounts = Len(pure.midpoint_accounts),
                            !.processed_accounts = st.processed_accounts,
                            !.discrepancies_found = Len(st.discrepancies)]]
    /\ UNCHANGED <<accounts, rules, nextOp, run, calls, operations, run2>>
    /\ UNCHANGED flowVars

\* the target lists of a job
JobTargetLists == {<<"LDAP">>, <<"LDAP", "SQL">>, <<"SQL", "LDAP">>}

\* the accounts of each target: lists of at most one account
TargetAccountMaps ==
    [ReconTargets -> UNION {AccountLists(TargetAccounts(t),
                                         MappedName(t, "email"), 1) :
                              t \in ReconTargets}]

PureReconJob ==
    [fn : {"reconciliation_job"},
     job : {NewJob(ts) : ts \in JobTargetLists},
     midpoint_accounts : AccountLists(HubAccounts, "email", MaxAccounts),
     target_accounts :
        {m \in TargetAccountMaps :
            \A t \in ReconTargets :
                m[t] \in AccountLists(TargetAccounts(t), MappedName(t, "email"), 1)},
     outcome : {"none"}, discrepancies : {<<>>}]

NextReconJob == RunReconciliationJob

InitReconJob ==
    /\ InitProgram
    /\ accounts = {}
    /\ pure \in PureReconJob

SpecReconJob == InitReconJob /\ [][NextReconJob]_vars

(* ======================== rule-engine properties ====================== *)
\* the rule list without the rule of the given id
Without(rs, id) == SelectSeq(rs, LAMBDA r : r.id # id)

CalcRuns == IF pure.fn = "calculate_attributes" THEN pure.runs ELSE <<>>

\* C17: a rule whose evaluation throws is skipped and nothing else changes:
\* for every rule the error log of a call names, the dict the call returns
\* is the dict the same call returns on the rule list without that rule.
C17_FailureIsLocal ==
    \A k \in DOMAIN CalcRuns :
        \A t \in DOMAIN CalcRuns[k].calc :
            \A f \in CalcRuns[k].calc[t].failed :
                ResultsOf(CalculateAttributes(pure.attributes, pure.targets,
                                              Without(pure.rules, f),
                                              CalcRuns[k].clock))
                    = ResultsOf(CalcRuns[k].calc)

\* a call in which a rule threw between two rules of the same target that
\* both produced their output
C17_Witness ==
    \E k \in DOMAIN CalcRuns :
        LET ldap == CalcRuns[k].calc["LDAP"]
        IN  /\ "ldap_bad" \in ldap.failed
            /\ DOMAIN ldap.result = {"uid", "mail"}
            /\ ldap.result["mail"] = ldap.result["uid"]

RuleById(id) == CHOOSE r \in Range(pure.rules) : r.id = id

\* what the j-th rule a target's loop ran returned, from the context it was
\* handed
Returned(seen, j, clock) ==
    ExecuteRule(RuleById(seen[j].rule), seen[j].context, clock)

\* the rules before the i-th that wrote the attribute key
Writers(seen, i, key, clock) ==
    { j \in 1..(i - 1) :
        /\ RuleById(seen[j].rule).target_attribute = key
        /\ Returned(seen, j, clock).ok }

Latest(S) == CHOOSE j \in S : \A l \in S : l <= j

\* C18: the value a rule writes is visible to the later (lower-priority)
\* rules of the same target and to no rule of another target: the context
\* every rule is handed holds, for each name, the value of the latest earlier
\* rule of the same target that wrote it, and otherwise exactly what the
\* source attributes hold.
C18_ChainingWithinTarget ==
    \A k \in DOMAIN CalcRuns :
        \A t \in DOMAIN CalcRuns[k].calc :
            LET seen == CalcRuns[k].calc[t].seen
                clock == CalcRuns[k].clock
            IN  \A i \in DOMAIN seen :
                    /\ RuleById(seen[i].rule).target_system = t
                    /\ \A key \in SourceAttributes \cup TargetAttributes
                                    \cup DOMAIN seen[i].context :
                         IF Writers(seen, i, key, clock) = {}
                            THEN /\ key \in DOMAIN seen[i].context
                                        <=> key \in DOMAIN pure.attributes
                                 /\ key \in DOMAIN seen[i].context
                                        => seen[i].context[key] = pure.attributes[key]
                            ELSE /\ key \in DOMAIN seen[i].context
                                 /\ seen[i].context[key] =
                                        Returned(seen, Latest(Writers(seen, i, key, clock)),
                                                 clock).value

\* LDAP computed before SQL: the LDAP mail rule read the uid the LDAP uid
\* rule wrote, the SQL mail rule found no uid at all
C18_Witness ==
    \E k \in DOMAIN CalcRuns :
        /\ pure.targets = <<"LDAP", "SQL">>
        /\ CalcRuns[k].calc["LDAP"].result =
               [a \in {"uid", "mail"} |-> <<"normalized", "jean">>]
        /\ CalcRuns[k].calc["SQL"].result = [a \in {"mail"} |-> <<>>]

\* C19: two calls of calculate_attributes with the same source attributes,
\* the same target list and the same rule set return the same dict, whatever
\* the time of the call.
C19_Deterministic ==
    \A j, k \in DOMAIN CalcRuns :
        ResultsOf(CalcRuns[j].calc) = ResultsOf(CalcRuns[k].calc)

(* ====================== reconciliation properties ===================== *)
ReconRan == pure.fn = "run_reconciliation" /\ pure.outcome # "none"

HubKey(account) == IdentityKey(account, "email")
TargetKey(account) ==
    IdentityKey(account, MappedName(pure.target_system, "email"))

\* the identity key a discrepancy is about
KeyOf(d) ==
    IF d.midpoint_value # NoAccount THEN HubKey(d.midpoint_value)
    ELSE TargetKey(d.target_value)

\* the discrepancies of the run about the key
About(key) ==
    { i \in DOMAIN pure.discrepancies : KeyOf(pure.discrepancies[i]) = key }

\* the mapped attributes on which the two accounts differ
Differing(hub_account, target_account) ==
    LET m == Mappings(pure.target_system)
    IN  { m[i][1] : i \in { j \in DOMAIN m :
            Get(hub_account.attrs, m[j][1]) # Get(target_account.attrs, m[j][2]) } }

\* C20: when a reconciliation run in which every read succeeded has ended,
\* every identity key (normalised email, else normalised username) is
\* classified exactly once: a key only the hub has carries one
\* missing_in_target, a key only the target has one missing_in_hub, and a key
\* both have carries one attribute_mismatch naming the differing attributes
\* with both values when some mapped attribute differs, and nothing
\* otherwise.
C20_EveryKeyClassifiedOnce ==
    (ReconRan /\ pure.failing = {}) =>
        LET hub == pure.midpoint_accounts
            tgt == pure.target_accounts
            D == pure.discrepancies
        IN  /\ \A i \in DOMAIN hub :
                  (\A j \in DOMAIN tgt : TargetKey(tgt[j]) # HubKey(hub[i]))
                     => \E d \in About(HubKey(hub[i])) :
                            /\ About(HubKey(hub[i])) = {d}
                            /\ D[d].discrepancy_type = "missing_in_target"
            /\ \A j \in DOMAIN tgt :
                  (\A i \in DOMAIN hub : HubKey(hub[i]) # TargetKey(tgt[j]))
                     => \E d \in About(TargetKey(tgt[j])) :
                            /\ About(TargetKey(tgt[j])) = {d}
                            /\ D[d].discrepancy_type = "missing_in_hub"
            /\ \A i \in DOMAIN hub, j \in DOMAIN tgt :
                  HubKey(hub[i]) = TargetKey(tgt[j])
                     => IF Differing(hub[i], tgt[j]) = {}
                           THEN About(HubKey(hub[i])) = {}
                           ELSE \E d \in About(HubKey(hub[i])) :
                                  /\ About(HubKey(hub[i])) = {d}
                                  /\ D[d].discrepancy_type = "attribute_mismatch"
                                  /\ { D[d].mismatches[n].attribute :
                                         n \in DOMAIN D[d].mismatches }
                                        = Differing(hub[i], tgt[j])
                                  /\ \A n \in DOMAIN D[d].mismatches :
                                        /\ D[d].mismatches[n].midpoint_value =
                                              Get(hub[i].attrs, D[d].mismatches[n].attribute)
                                        /\ D[d].mismatches[n].target_value =
                                              Get(tgt[j].attrs,
                                                  MappedName(pure.target_system,
                                                             D[d].mismatches[n].attribute))

\* the results of the calls of resolve_discrepancies so far
ResolveResults == IF pure.fn = "resolve_discrepancies" THEN pure.results ELSE <<>>

\* the ids the calls were asked to resolve
AskedIds ==
    IF pure.discrepancy_ids = <<>>
        THEN {pure.reported[i].id : i \in DOMAIN pure.reported}
        ELSE Range(pure.discrepancy_ids)
            \cap {pure.reported[i].id : i \in DOMAIN pure.reported}

\* the discrepancy of that id is on record as resolved
IsResolved(id) ==
    \E i \in DOMAIN GetDiscrepancies("job") :
        /\ GetDiscrepancies("job")[i].id = id
        /\ GetDiscrepancies("job")[i].resolved

\* C21: resolution is idempotent.  Once resolve_discrepancies has been called
\* twice, the second call has made no write, to a connector or to the hub,
\* for a discrepancy the first call resolved; and after two calls with
\* "ignore" every discrepancy asked for is on record as resolved.
C21_ResolveIdempotent ==
    Len(ResolveResults) >= 2
        => /\ \A i \in DOMAIN ResolveResults[1].discrepancies :
                ResolveResults[1].discrepancies[i].resolved
                   => \A w \in DOMAIN ResolveResults[2].writes :
                        ResolveResults[2].writes[w].id
                            # ResolveResults[1].discrepancies[i].id
           /\ pure.action = "ignore" => \A id \in AskedIds : IsResolved(id)

\* C22: when the read of single accounts fails during a reconciliation run,
\* each failure is on the job's error list, every hub account has still
\* been processed, and the run has completed rather than failed.
C22_AccountFailureIsolated ==
    (ReconRan /\ \E i \in DOMAIN pure.midpoint_accounts :
                    pure.midpoint_accounts[i].id \in pure.failing)
        => /\ pure.outcome = "completed"
           /\ pure.processed_accounts = Len(pure.midpoint_accounts)
           /\ \A i \in DOMAIN pure.midpoint_accounts :
                 pure.midpoint_accounts[i].id \in pure.failing
                    => \E e \in DOMAIN pure.errors :
                         pure.errors[e].account_id = pure.midpoint_accounts[i].id

ReconJobs == IF pure.fn = "start_reconciliation" THEN pure.jobs ELSE <<>>

\* the active jobs that cover the target
ActiveJobsFor(target) ==
    { j \in DOMAIN ReconJobs :
        /\ ReconJobs[j].status \in ActiveJobStatus
        /\ target \in Range(ReconJobs[j].target_systems) }

\* C23: at any time at most one reconciliation job that is pending or
\* in_progress exists for a target system.
C23_OneActiveJobPerTarget ==
    \A target \in Targets : Cardinality(ActiveJobsFor(target)) <= 1

(* ========================= audit properties =========================== *)
\* a connector call of the request's apply loop raised
ConnectorRaised ==
    \E i \in DOMAIN calls : calls[i].phase = "apply" /\ calls[i].outcome = "raise"

\* C24: a failing audit call changes nothing for the caller.  A finished
\* provisioning request has failed exactly when one of its connector calls
\* raised, and otherwise the operation is stored with status success, as
\* happens when every audit call succeeds.
C24_AuditFailureContained ==
    run.pc = "done"
        => /\ run.raised <=> ConnectorRaised
           /\ ~ConnectorRaised => /\ run.status = "success"
                                  /\ operations[run.id].status = "success"

(* ========================= deadline properties ======================== *)
\* the workflow, created at time 0, is pending past its deadline
PendingPastDeadline(w) ==
    /\ pure.fn = "reaper"
    /\ workflows[w].status = "pending"
    /\ pure.now > ExpiresAt(0)

\* C25: a pending workflow instance whose expires_at has passed does not
\* stay pending: the reaper moves it on (to expired, then approved or
\* cancelled).
C25_ExpiredIsReaped ==
    \A w \in OpIds : PendingPastDeadline(w) ~> (workflows[w].status # "pending")

(* ========================== token properties ========================== *)
LastPresentation == IF pure.fn = "tokens" THEN pure.last ELSE NoPresentation

\* C26: a token is bound to its workflow and its action.  A request that
\* presents anything but the token minted for the workflow and action it
\* names is answered 400 and records no decision: the workflow and its
\* operation keep the status they had.
C26_TokenBoundToWorkflowAndAction ==
    (LastPresentation.action # "none" /\ ~LastPresentation.issued)
        => /\ LastPresentation.answer = 400
           /\ LastPresentation.workflow_after = LastPresentation.workflow_before
           /\ LastPresentation.operation_after = LastPresentation.operation_before

\* the approve token of a pending workflow was presented with action=reject
C26_Witness ==
    /\ LastPresentation.action = "reject"
    /\ LastPresentation.workflow_id \in OpIds
    /\ LastPresentation.workflow_before = "pending"
    /\ LastPresentation.token = ApproveTokenOf(LastPresentation.workflow_id)
    /\ LastPresentation.workflow_after = "pending"
    /\ LastPresentation.answer = 400

(* ===================== operation status properties ===================== *)
\* the seven statuses the operation model documents
DocumentedStatus ==
    {"pending", "in_progress", "awaiting_approval", "success", "failed",
     "rolled_back", "rejected"}

\* C27: the status of every stored operation is one of the seven documented
\* statuses, whatever requests were applied.
C27_StatusInDocumentedSet ==
    \A o \in OpIds :
        operations[o] # NoOperation => operations[o].status \in DocumentedStatus

(* ========================= rollback properties ========================= *)
\* the compensation calls made for the current operation
RollbackCallsMade == {i \in DOMAIN calls : calls[i].phase = "rollback"}

\* the request was answered with a failure
AnsweredFailure == run.pc = "done" /\ run.raised

RecordedAt(target) ==
    CHOOSE a \in DOMAIN run.rollback_actions :
        run.rollback_actions[a].target_system = target

\* the compensation loop is over
RollbackOver == AnsweredFailure /\ Len(run.rollback_actions) >= 1

\* C29: compensation runs in the reverse of the recording order and attempts
\* every recorded action: a compensation call is made for each action, also
\* after an earlier one raised, and of two compensation calls the earlier
\* one is for the action recorded later.
C29_ReverseOrderAllAttempted ==
    RollbackOver
        => /\ \A a \in DOMAIN run.rollback_actions :
                 \E i \in RollbackCallsMade :
                    calls[i].target = run.rollback_actions[a].target_system
           /\ \A i, j \in RollbackCallsMade :
                 i < j => RecordedAt(calls[i].target) > RecordedAt(calls[j].target)

\* two actions were recorded, the compensation of the later one raised and
\* the earlier one was compensated all the same
C29_Witness ==
    /\ RollbackOver
    /\ Len(run.rollback_actions) = 2
    /\ \E i, j \in RollbackCallsMade :
          /\ i < j
          /\ calls[i].outcome = "raise"
          /\ calls[i].target = run.rollback_actions[2].target_system
          /\ calls[j].target = run.rollback_actions[1].target_system

\* the connector calls of the operation's own type that failed
FailedApplyCalls ==
    {i \in DOMAIN calls : calls[i].phase = "apply" /\ CallFailed(calls[i].outcome)}

\* C30: once a connector call of the operation has failed, the operation is
\* marked failed with the cause in error_message, rollback is triggered, and
\* when execute_provisioning is over the status is failed or rolled_back,
\* never success or in_progress.
C30_FailureMarksFailed ==
    FailedApplyCalls # {}
        => /\ run.status \in {"failed", "rolled_back"}
           /\ run.error # ""
           /\ run.pc \in {"rollback", "done"}

\* the failures the operation record shows: error_message is its only error
\* field, and holds the cause execute_provisioning captured
ErrorsShown(r) == IF r.error = "" THEN {} ELSE {r.error}

\* the compensation calls that raised
RollbackCallsRaised == {i \in RollbackCallsMade : calls[i].outcome = "raise"}

\* C31: a compensation that fails during rollback is accumulated onto the
\* operation: once rollback is over the operation record shows every
\* compensation that failed, and the operation has its terminal status.
C31_CompensationErrorsShown ==
    RollbackOver
        => /\ \A i \in RollbackCallsRaised : calls[i].target \in ErrorsShown(run)
           /\ run.status \in TerminalStatus

\* the creates of the operation that succeeded
Created ==
    {i \in DOMAIN calls : /\ calls[i].phase = "apply" /\ calls[i].kind = "create"
                          /\ calls[i].outcome = "ok"}

\* C32: the recorded RollbackActions are always the delete actions of the
\* targets whose create succeeded, in the order of the creates: the action
\* of a target is there before the call for the next target, and nothing
\* is recorded for a create that failed or for another operation type.
C32_RecordedAreCreated ==
    run.pc \in {"exec", "rollback", "done"}
        => /\ Len(run.rollback_actions) = Cardinality(Created)
           /\ \A a \in DOMAIN run.rollback_actions :
                 /\ a \in Created
                 /\ calls[a].target = run.rollback_actions[a].target_system
                 /\ run.rollback_actions[a].action_type = "delete"

\* two creates succeeded and the third call is still to come
C32_Witness ==
    /\ run.pc = "exec"
    /\ run.type = "create"
    /\ Len(run.targets) = 3
    /\ Len(calls) = 2
    /\ Len(run.rollback_actions) = 2
    /\ run.rollback_actions[1].target_system = run.targets[1]
    /\ run.rollback_actions[2].target_system = run.targets[2]

(* ========================== quorum properties ========================== *)
\* the approvals given to the instance of decision k at its level, k's included
ApprovalsUpTo(k) ==
    Cardinality({j \in 1..k : /\ decisions[j].instance = decisions[k].instance
                              /\ decisions[j].level = decisions[k].level
                              /\ decisions[j].decision = "approved"})

\* record_decision answered that the level of decision k is complete
LevelDeclaredComplete(k) ==
    /\ decisions[k].decision = "approved"
    /\ \/ decisions[k].next_level > decisions[k].level
       \/ decisions[k].complete

CondFalse(seen, j) ==
    LET rule == RuleById(seen[j].rule)
    IN  /\ rule.conditions # NoCond
        /\ ~EvaluateConditions(rule.conditions, seen[j].context)

\* C34: a rule whose conditions are false is skipped with no value and no
\* error: the dict the call returns is the dict the same call returns on
\* the rule list without that rule, and the error log does not name it.
C34_FalseConditionSkipped ==
    \A k \in DOMAIN CalcRuns :
        \A t \in DOMAIN CalcRuns[k].calc :
            LET seen == CalcRuns[k].calc[t].seen
            IN  \A j \in DOMAIN seen :
                    CondFalse(seen, j)
                        => /\ seen[j].rule \notin CalcRuns[k].calc[t].failed
                           /\ ResultsOf(CalculateAttributes(
                                    pure.attributes, pure.targets,
                                    Without(pure.rules, seen[j].rule),
                                    CalcRuns[k].clock))
                                 = ResultsOf(CalcRuns[k].calc)

\* the rules the loop of a target ran that wrote the attribute key
AllWriters(seen, key, clock) == Writers(seen, Len(seen) + 1, key, clock)

\* C35: only rules of the requested targets are run, each target's rules
\* in descending priority order, and the value an attribute ends with is the
\* one written by the last of the rules that wrote it (the one of lowest
\* priority).
C35_PriorityOrderLastWins ==
    \A k \in DOMAIN CalcRuns :
        LET calc == CalcRuns[k].calc
            clock == CalcRuns[k].clock
        IN  /\ DOMAIN calc = Range(pure.targets)
            /\ \A t \in DOMAIN calc :
                  LET seen == calc[t].seen
                  IN  /\ {seen[i].rule : i \in DOMAIN seen}
                            = {r.id : r \in {x \in Range(pure.rules) :
                                                x.target_system = t}}
                      /\ \A i, j \in DOMAIN seen :
                            i < j => RuleById(seen[i].rule).priority
                                        >= RuleById(seen[j].rule).priority
                      /\ \A key \in TargetAttributes :
                            IF AllWriters(seen, key, clock) = {}
                               THEN key \notin DOMAIN calc[t].result
                               ELSE /\ key \in DOMAIN calc[t].result
                                    /\ calc[t].result[key] =
                                          Returned(seen,
                                              Latest(AllWriters(seen, key, clock)),
                                              clock).value

\* the rule list names the low-priority uid rule first; the loop still ran
\* it after the high-priority one, its value is the one returned, and the
\* SQL rule of the list was not run because SQL was not requested
C35_Witness ==
    \E k \in DOMAIN CalcRuns :
        /\ pure.targets = <<"LDAP">>
        /\ Len(pure.rules) = 3
        /\ pure.rules[1].id = "ldap_login"
        /\ pure.rules[2].id = "ldap_uid"
        /\ pure.rules[3].id = "sql_username"
        /\ pure.attributes = [a \in SourceAttributes |->
                                 IF a = "firstname" THEN <<"jean">> ELSE <<"j@x">>]
        /\ CalcRuns[k].calc["LDAP"].seen[1].rule = "ldap_uid"
        /\ CalcRuns[k].calc["LDAP"].seen[2].rule = "ldap_login"
        /\ CalcRuns[k].calc["LDAP"].result = [a \in {"uid"} |-> <<"j@x">>]

(* ===================== resolution frame properties ===================== *)
\* the call's result has the discrepancy of that id, marked resolved
MarkedResolved(result, id) ==
    \E i \in DOMAIN result.discrepancies :
        /\ result.discrepancies[i].id = id
        /\ result.discrepancies[i].resolved

\* C36: with "ignore" a call makes no write and marks every discrepancy it
\* was asked to resolve as resolved; with "manual" it makes no write and
\* leaves every one of them unresolved.
C36_IgnoreAndManual ==
    \A k \in DOMAIN ResolveResults :
        /\ pure.action = "ignore"
              => /\ ResolveResults[k].writes = <<>>
                 /\ \A id \in AskedIds : MarkedResolved(ResolveResults[k], id)
        /\ pure.action = "manual"
              => /\ ResolveResults[k].writes = <<>>
                 /\ ResolveResults[k].resolved = 0
                 /\ \A id \in AskedIds : ~MarkedResolved(ResolveResults[k], id)

\* the reported discrepancies a call was asked to resolve
AskedDiscrepancies ==
    {pure.reported[i] : i \in {j \in DOMAIN pure.reported :
                                  pure.reported[j].id \in AskedIds}}

\* the call made that write for the discrepancy of that id
Wrote(result, id, to, call) ==
    \E w \in DOMAIN result.writes :
        /\ result.writes[w].id = id
        /\ result.writes[w].to = to
        /\ result.writes[w].call = call

ReconJob == IF pure.fn = "reconciliation_job" THEN pure.job ELSE NewJob(<<>>)

ReconJobRan == pure.fn = "reconciliation_job" /\ pure.outcome # "none"

ApprovedAndResumed(w) ==
    workflows[w].status = "approved" /\ resolved[w].cont >= 1

C40_ExecutedOnlyOnSuccess ==
    \A a \in DOMAIN run.rollback_actions :
        LET action == run.rollback_actions[a]
            made == Compensations(action.target_system)
        IN  /\ Cardinality(made) <= 1
            /\ action.executed => \E j \in made : calls[j].outcome = "ok"
            /\ \A j \in made : CallFailed(calls[j].outcome) => ~action.executed

====
